---------------------------- MODULE Spec2Model ----------------------------
(***************************************************************************)
(* Zone assignment, density classification, emergency-timer escalation,    *)
(* exit routing, audio alerts and the configuration page of the crowd      *)
(* evaluation system (zone_logic.py, timer_manager.py, logic.py,           *)
(* config.py, exit_logic.py, evacuation.py, audio_alerts.py,               *)
(* page_modules/analysis.py, page_modules/configuration.py).               *)
(*                                                                         *)
(* Units.  Clock readings (time.time()) are drawn from a quarter-second    *)
(* grid, so every time value of the model is a number of quarter seconds:  *)
(* 30 s is 120, 60 s is 240, the 0.5 s flash interval is 2.  One call of   *)
(* calculate_zone_statuses reads the clock at one instant.                 *)
(* A density count/area is kept as the exact fraction <<count, area>>;     *)
(* the density thresholds 2.0, 3.5 and 5.0 are kept in tenths.             *)
(***************************************************************************)
EXTENDS Integers, Sequences, FiniteSets, TLC

VARIABLES
    now,                \* the wall clock, time.time(), in quarter seconds
    frames,             \* number of frames processed so far
    frame_count,        \* frames processed so far by the current analysis run
    polygon_zones,      \* the zone configuration: [id, name, area, polygon]
    zone_timers,        \* EmergencyTimerManager.zone_timers
    flash_state,        \* EmergencyTimerManager.flash_state
    last_flash_toggle,  \* EmergencyTimerManager.last_flash_toggle
    zone_counts,        \* argument of the last calculate_zone_statuses call
    zone_densities,     \* results of the last calculate_zone_statuses call
    zone_statuses,
    zone_timer_data,
    frame_w,            \* frame width and height in pixels
    frame_h,
    detections,         \* the detections handed to assign_detections_to_zones
    cls_count,          \* one classification: the count and area given,
    cls_area,           \* the density and status computed from them
    cls_density,
    cls_status,
    exit_config,        \* the exits: [id, name, zones, x_pct, y_pct]
    route_zone_statuses,\* zone index -> status, as given to the exit logic
    zone_exit_mapping,  \* result of get_zone_exit_mapping
    exit_statuses,      \* exit index -> status given to generate_instructions
    instructions,       \* result of generate_instructions
    best_exit,          \* zone index -> result of get_best_exit_for_zone
    global_alert,       \* results of the two get_global_alert_level
    route_call,         \* the function that produced the instructions
    audio_enabled,      \* AudioAlertSystem.enabled
    current_alert,      \* AudioAlertSystem.current_alert
    stop_flag,          \* AudioAlertSystem.stop_flag
    alert_thread,       \* AudioAlertSystem.alert_thread: a thread number, 0 for None
    threads,            \* the _alert_loop threads created so far: [pc, interval]
    main_pc,            \* "idle", or "join" inside stop_alert's join
    call,               \* the call in progress, or the last one completed
    zone_mode,          \* st.session_state.zone_mode, the radio of the zone editor
    config_saved,       \* st.session_state.config_saved
    video_file,         \* st.session_state.video_file: NoneName or the upload
    current_page,       \* st.session_state.current_page
    notice              \* the message the last run of the configuration page showed

timerVars == <<now, frames, frame_count, zone_timers, flash_state, last_flash_toggle,
               zone_densities, zone_statuses, zone_timer_data>>

geomVars == <<frame_w, frame_h, detections>>

densityVars == <<cls_count, cls_area, cls_density, cls_status>>

exitVars == <<exit_config, route_zone_statuses, zone_exit_mapping, exit_statuses,
              instructions, best_exit, global_alert, route_call>>

audioVars == <<audio_enabled, current_alert, stop_flag, alert_thread, threads,
               main_pc, call>>

configVars == <<zone_mode, config_saved, video_file, current_page, notice>>

vars == <<timerVars, geomVars, densityVars, polygon_zones, zone_counts,
          exitVars, audioVars, configVars>>

---------------------------------------------------------------------------
(* Bounds of the model *)

MaxFrames == 4

\* time between two processed frames, in quarter seconds:
\* 0.25 s, 15 s, 60 s
FrameGaps == {1, 60, 240}

AreaChoices == {-10, 0, 10, 50}

CountChoices == {0, 20, 175, 250}

\* counts and areas of the classifications (specification SpecDensity)
MaxCount == 50

MaxArea == 10

\* frame sizes and detections per frame (specification SpecGeom)
MaxW == 4

MaxH == 3

MaxDets == 1

\* exits in exit_config (specification SpecExit)
MaxExits == 3

\* alert threads created in one run (specification SpecAudio)
MaxThreads == 2

\* polygons in one result of the drawing canvas
MaxPolys == 3

---------------------------------------------------------------------------
(* Python dictionaries: functions with a finite domain *)

EmptyDict == [k \in {} |-> TRUE]

DictPut(d, k, v) == [x \in (DOMAIN d) \cup {k} |-> IF x = k THEN v ELSE d[x]]

DictDel(d, k) == [x \in (DOMAIN d) \ {k} |-> d[x]]

DictGet(d, k, default) == IF k \in DOMAIN d THEN d[k] ELSE default

\* Python's None where a dictionary is expected, and where a zone id is
None == [none |-> TRUE]

NoneId == "None"

---------------------------------------------------------------------------
(* config.py *)

TIMER_THRESHOLDS == [WARNING |-> 30 * 4, CRITICAL |-> 60 * 4, SEVERE |-> 60 * 4]

DEFAULT_ZONE_AREA == 50

\* polygon vertices are percentages in halves: 0.0 is 0, 0.5 is 1, 1.0 is 2
DEFAULT_POLYGON_ZONES ==
    << [id |-> "zone_0", name |-> "Zone A (Top-Left)", area |-> 50,
        polygon |-> << <<0, 0>>, <<1, 0>>, <<1, 1>>, <<0, 1>> >>],
       [id |-> "zone_1", name |-> "Zone B (Top-Right)", area |-> 50,
        polygon |-> << <<1, 0>>, <<2, 0>>, <<2, 1>>, <<1, 1>> >>],
       [id |-> "zone_2", name |-> "Zone C (Bottom-Left)", area |-> 50,
        polygon |-> << <<0, 1>>, <<1, 1>>, <<1, 2>>, <<0, 2>> >>],
       [id |-> "zone_3", name |-> "Zone D (Bottom-Right)", area |-> 50,
        polygon |-> << <<1, 1>>, <<2, 1>>, <<2, 2>>, <<1, 2>> >>] >>

\* 0.5 s
TIMER_FLASH_INTERVAL == 2

\* 2.0, 3.5, 5.0 people per square metre, in tenths
DENSITY_THRESHOLDS == [SAFE |-> 20, MODERATE |-> 35, WARNING |-> 50]

---------------------------------------------------------------------------
(* zone_logic.py: density and status *)

calculate_density_ZeroAreaDivides(count, area) ==
    IF area < 0 THEN <<0, 1>> ELSE <<count, area>>

\* count / area as an exact fraction; 0.0 is <<0, 1>>
calculate_density(count, area) ==
    IF area <= 0 THEN <<0, 1>> ELSE <<count, area>>

\* density < threshold, for a fraction with a positive denominator
DensityBelow(density, tenths) == 10 * density[1] < tenths * density[2]

\* density <= threshold
DensityAtMost(density, tenths) == 10 * density[1] <= tenths * density[2]

get_status_by_density_InclusiveUpper(density) ==
    IF DensityAtMost(density, DENSITY_THRESHOLDS.SAFE) THEN "SAFE"
    ELSE IF DensityAtMost(density, DENSITY_THRESHOLDS.MODERATE) THEN "MODERATE"
    ELSE IF DensityAtMost(density, DENSITY_THRESHOLDS.WARNING) THEN "WARNING"
    ELSE "EMERGENCY"

get_status_by_density_SwappedTiers(density) ==
    IF DensityBelow(density, DENSITY_THRESHOLDS.SAFE) THEN "SAFE"
    ELSE IF DensityBelow(density, DENSITY_THRESHOLDS.MODERATE) THEN "WARNING"
    ELSE IF DensityBelow(density, DENSITY_THRESHOLDS.WARNING) THEN "MODERATE"
    ELSE "EMERGENCY"

get_status_by_density(density) ==
    IF DensityBelow(density, DENSITY_THRESHOLDS.SAFE) THEN "SAFE"
    ELSE IF DensityBelow(density, DENSITY_THRESHOLDS.MODERATE) THEN "MODERATE"
    ELSE IF DensityBelow(density, DENSITY_THRESHOLDS.WARNING) THEN "WARNING"
    ELSE "EMERGENCY"

\* the priority table of get_global_alert_level
priority == [SAFE |-> 0, MODERATE |-> 1, WARNING |-> 2, EMERGENCY |-> 3]

---------------------------------------------------------------------------
(* zone_logic.py: point location.  Pixel coordinates are doubled, so that  *)
(* the vertex 0.5 * frame_w of an odd frame width is a whole number.       *)

\* px < (xj - xi) * (py - yi) / (yj - yi) + xi, for yj # yi
RayCrossesLeftOf(PX, PY, XI, YI, XJ, YJ) ==
    IF YJ - YI > 0
    THEN (PX - XI) * (YJ - YI) < (XJ - XI) * (PY - YI)
    ELSE (PX - XI) * (YJ - YI) > (XJ - XI) * (PY - YI)

point_in_polygon_DegenerateInside(px, py, polygon_pct, w, h) ==
    LET n == Len(polygon_pct)
        X(i) == polygon_pct[i][1] * w
        Y(i) == polygon_pct[i][2] * h
        Crosses(i) ==
            LET j == IF i = 1 THEN n ELSE i - 1
            IN  /\ (Y(i) > 2 * py) # (Y(j) > 2 * py)
                /\ RayCrossesLeftOf(2 * px, 2 * py, X(i), Y(i), X(j), Y(j))
    IN  IF n < 3 THEN TRUE
        ELSE Cardinality({i \in 1..n : Crosses(i)}) % 2 = 1

\* inside is flipped once per crossed edge: the number of crossings is odd
point_in_polygon(px, py, polygon_pct, w, h) ==
    LET n == Len(polygon_pct)
        X(i) == polygon_pct[i][1] * w
        Y(i) == polygon_pct[i][2] * h
        Crosses(i) ==
            LET j == IF i = 1 THEN n ELSE i - 1
            IN  /\ (Y(i) > 2 * py) # (Y(j) > 2 * py)
                /\ RayCrossesLeftOf(2 * px, 2 * py, X(i), Y(i), X(j), Y(j))
    IN  IF n < 3 THEN FALSE
        ELSE Cardinality({i \in 1..n : Crosses(i)}) % 2 = 1

FirstZoneOf_LastMatch(center, zones, w, h) ==
    LET hits == {i \in 1..Len(zones) :
                    point_in_polygon(center[1], center[2], zones[i].polygon, w, h)}
    IN  IF hits = {} THEN NoneId
        ELSE zones[CHOOSE i \in hits : \A k \in hits : i >= k].id

\* the id of the first zone, in declaration order, that contains the point
FirstZoneOf(center, zones, w, h) ==
    LET hits == {i \in 1..Len(zones) :
                    point_in_polygon(center[1], center[2], zones[i].polygon, w, h)}
    IN  IF hits = {} THEN NoneId
        ELSE zones[CHOOSE i \in hits : \A k \in hits : i <= k].id

\* returns the zone counts and the detections with their zone_id set
assign_detections_to_zones(dets, zones, w, h) ==
    LET annotated == [k \in 1..Len(dets) |->
                        [center  |-> dets[k].center,
                         zone_id |-> FirstZoneOf(dets[k].center, zones, w, h)]]
    IN  [detections |-> annotated,
         zone_counts |->
            [zid \in {zones[i].id : i \in 1..Len(zones)} |->
                Cardinality({k \in 1..Len(dets) : annotated[k].zone_id = zid})]]

---------------------------------------------------------------------------
(* logic.py: the 2x2 grid *)

get_zone(cx, cy, frame_width, frame_height) ==
    LET mid_x == frame_width \div 2
        mid_y == frame_height \div 2
    IN  IF cx < mid_x
        THEN (IF cy < mid_y THEN 0 ELSE 2)
        ELSE (IF cy < mid_y THEN 1 ELSE 3)

---------------------------------------------------------------------------
(* timer_manager.py: the manager is the record of its three dictionaries *)

TimerManager(zt, fs, lft) ==
    [zone_timers |-> zt, flash_state |-> fs, last_flash_toggle |-> lft]

start_timer(tm, zone_id, t) ==
    IF zone_id \notin DOMAIN tm.zone_timers
    THEN TimerManager(
            DictPut(tm.zone_timers, zone_id, [start_time |-> t, elapsed |-> 0]),
            DictPut(tm.flash_state, zone_id, TRUE),
            DictPut(tm.last_flash_toggle, zone_id, t))
    ELSE tm

\* one tick more per processed frame instead of the clock difference
update_timer_CountsFrames(tm, zone_id, t) ==
    IF zone_id \in DOMAIN tm.zone_timers
    THEN [tm EXCEPT !.zone_timers[zone_id].elapsed =
                        tm.zone_timers[zone_id].elapsed + 1]
    ELSE tm

update_timer(tm, zone_id, t) ==
    IF zone_id \in DOMAIN tm.zone_timers
    THEN [tm EXCEPT !.zone_timers[zone_id].elapsed =
                        t - tm.zone_timers[zone_id].start_time]
    ELSE tm

stop_timer_KeepsFlash(tm, zone_id) ==
    TimerManager(DictDel(tm.zone_timers, zone_id),
                 tm.flash_state,
                 tm.last_flash_toggle)

stop_timer(tm, zone_id) ==
    TimerManager(DictDel(tm.zone_timers, zone_id),
                 DictDel(tm.flash_state, zone_id),
                 DictDel(tm.last_flash_toggle, zone_id))

get_elapsed(tm, zone_id) ==
    IF zone_id \in DOMAIN tm.zone_timers
    THEN tm.zone_timers[zone_id].elapsed
    ELSE 0

\* the decimal digits of n, at least two of them (format spec 02d)
RECURSIVE Digits(_)
Digits(n) == IF n < 10 THEN <<n>> ELSE Digits(n \div 10) \o <<n % 10>>

Format02d(n) == IF n < 10 THEN <<0, n>> ELSE Digits(n)

\* f"{minutes:02d}:{seconds:02d}" as a sequence of digits and ":"
get_formatted_time(tm, zone_id) ==
    LET elapsed == get_elapsed(tm, zone_id)
        minutes == elapsed \div (60 * 4)
        seconds == (elapsed % (60 * 4)) \div 4
    IN  Format02d(minutes) \o <<":">> \o Format02d(seconds)

get_severity_level(tm, zone_id) ==
    LET elapsed == get_elapsed(tm, zone_id)
    IN  IF elapsed >= TIMER_THRESHOLDS.SEVERE THEN "SEVERE"
        ELSE IF elapsed >= TIMER_THRESHOLDS.CRITICAL THEN "CRITICAL"
        ELSE "WARNING"

should_flash_StrictInterval(tm, zone_id, t) ==
    IF get_severity_level(tm, zone_id) = "SEVERE"
    THEN LET tm2 == IF /\ zone_id \in DOMAIN tm.last_flash_toggle
                       /\ t - tm.last_flash_toggle[zone_id] > TIMER_FLASH_INTERVAL
                    THEN [tm EXCEPT !.flash_state[zone_id] = ~ tm.flash_state[zone_id],
                                    !.last_flash_toggle[zone_id] = t]
                    ELSE tm
         IN  [tm |-> tm2, ret |-> DictGet(tm2.flash_state, zone_id, TRUE)]
    ELSE [tm |-> tm, ret |-> TRUE]

\* returns the manager after the call and the returned value
should_flash(tm, zone_id, t) ==
    IF get_severity_level(tm, zone_id) = "SEVERE"
    THEN LET tm2 == IF /\ zone_id \in DOMAIN tm.last_flash_toggle
                       /\ t - tm.last_flash_toggle[zone_id] >= TIMER_FLASH_INTERVAL
                    THEN [tm EXCEPT !.flash_state[zone_id] = ~ tm.flash_state[zone_id],
                                    !.last_flash_toggle[zone_id] = t]
                    ELSE tm
         IN  [tm |-> tm2, ret |-> DictGet(tm2.flash_state, zone_id, TRUE)]
    ELSE [tm |-> tm, ret |-> TRUE]

get_timer_data(tm, zone_id, t) ==
    IF zone_id \notin DOMAIN tm.zone_timers
    THEN [tm |-> tm, ret |-> None]
    ELSE LET tm1 == update_timer(tm, zone_id, t)
             sf  == should_flash(tm1, zone_id, t)
         IN  [tm  |-> sf.tm,
              ret |-> [elapsed        |-> get_elapsed(tm1, zone_id),
                       formatted_time |-> get_formatted_time(tm1, zone_id),
                       severity       |-> get_severity_level(tm1, zone_id),
                       flash          |-> sf.ret]]

---------------------------------------------------------------------------
(* zone_logic.py: calculate_zone_statuses *)

ZoneIdSet(zones) == {zones[i].id : i \in 1..Len(zones)}

\* first loop (lines 143-152): density and status of every zone
ZoneDensities(counts, zones) ==
    [zid \in ZoneIdSet(zones) |->
        LET zone == CHOOSE z \in {zones[i] : i \in 1..Len(zones)} : z.id = zid
        IN  calculate_density(DictGet(counts, zid, 0), zone.area)]

ZoneStatuses(counts, zones) ==
    LET dens == ZoneDensities(counts, zones)
    IN  [zid \in DOMAIN dens |-> get_status_by_density(dens[zid])]

\* body of the second loop (lines 157-167) for one zone: the manager and
\* the timer data collected so far go in, their new values come out
TimerStep_StartsOnWarning(zone, statuses, tm, data, t) ==
    LET zid == zone.id
        tm1 == IF statuses[zid] \in {"WARNING", "EMERGENCY"}
               THEN start_timer(tm, zid, t)
               ELSE stop_timer(tm, zid)
        td  == get_timer_data(tm1, zid, t)
    IN  [tm |-> td.tm,
         data |-> IF td.ret # None THEN DictPut(data, zid, td.ret) ELSE data]

TimerStep(zone, statuses, tm, data, t) ==
    LET zid == zone.id
        tm1 == IF statuses[zid] = "EMERGENCY"
               THEN start_timer(tm, zid, t)
               ELSE stop_timer(tm, zid)
        td  == get_timer_data(tm1, zid, t)
    IN  [tm |-> td.tm,
         data |-> IF td.ret # None THEN DictPut(data, zid, td.ret) ELSE data]

\* second loop (lines 155-167), from zone number i on
RECURSIVE TimerLoop(_, _, _, _, _, _)
TimerLoop(i, zones, statuses, tm, data, t) ==
    IF i > Len(zones) THEN [tm |-> tm, data |-> data]
    ELSE LET r == TimerStep(zones[i], statuses, tm, data, t)
         IN  TimerLoop(i + 1, zones, statuses, r.tm, r.data, t)

\* One processed frame: the clock has advanced by gap since the previous
\* frame and calculate_zone_statuses(counts, polygon_zones, timer_manager)
\* runs to completion.
CalculateZoneStatuses(gap, counts) ==
    /\ frames < MaxFrames
    /\ frames' = frames + 1
    /\ frame_count' = frame_count + 1
    /\ now' = now + gap
    /\ LET statuses == ZoneStatuses(counts, polygon_zones)
           res == TimerLoop(1, polygon_zones, statuses,
                            TimerManager(zone_timers, flash_state, last_flash_toggle),
                            EmptyDict, now')
       IN  /\ zone_counts' = counts
           /\ zone_densities' = ZoneDensities(counts, polygon_zones)
           /\ zone_statuses' = statuses
           /\ zone_timer_data' = res.data
           /\ zone_timers' = res.tm.zone_timers
           /\ flash_state' = res.tm.flash_state
           /\ last_flash_toggle' = res.tm.last_flash_toggle
    /\ UNCHANGED <<polygon_zones, geomVars, densityVars, exitVars, audioVars, configVars>>

---------------------------------------------------------------------------
(* The frame loop with its timer manager *)

\* no exit configured and nothing routed yet
IdleExit ==
    /\ exit_config = << >>
    /\ route_zone_statuses = EmptyDict
    /\ zone_exit_mapping = EmptyDict
    /\ exit_statuses = EmptyDict
    /\ instructions = << >>
    /\ best_exit = EmptyDict
    /\ global_alert = [zone_logic |-> "SAFE", evacuation |-> "SAFE"]
    /\ route_call = "none"

\* _init_config_defaults (configuration.py lines 46-72), no video uploaded
IdleConfig ==
    /\ zone_mode = "Use Default Zones"
    /\ config_saved = FALSE
    /\ video_file = "None"
    /\ current_page = "config"
    /\ notice = "None"

\* AudioAlertSystem.__init__ (lines 51-54), no call made yet
IdleAudio ==
    /\ audio_enabled = TRUE
    /\ current_alert = "SAFE"
    /\ stop_flag = FALSE
    /\ alert_thread = 0
    /\ threads = << >>
    /\ main_pc = "idle"
    /\ call = [op |-> "none", level |-> "SAFE", zone_statuses |-> EmptyDict,
               enabled |-> TRUE]

IdleGeometry ==
    /\ frame_w = 2
    /\ frame_h = 2
    /\ detections = <<>>

IdleDensity ==
    /\ cls_count = 0
    /\ cls_area = DEFAULT_ZONE_AREA
    /\ cls_density = calculate_density(0, DEFAULT_ZONE_AREA)
    /\ cls_status = get_status_by_density(cls_density)

IdleTimers ==
    /\ now = 0
    /\ frames = 0
    /\ frame_count = 0
    /\ zone_timers = EmptyDict
    /\ flash_state = EmptyDict
    /\ last_flash_toggle = EmptyDict
    /\ zone_densities = EmptyDict
    /\ zone_statuses = EmptyDict
    /\ zone_timer_data = EmptyDict

\* two zones of the default layout; the first keeps the default area, the
\* area of the second is the administrator's entry
Init ==
    /\ IdleTimers
    /\ IdleGeometry
    /\ IdleDensity
    /\ IdleExit
    /\ IdleAudio
    /\ IdleConfig
    /\ polygon_zones \in
         { << DEFAULT_POLYGON_ZONES[1],
              [DEFAULT_POLYGON_ZONES[2] EXCEPT !.area = a] >> : a \in AreaChoices }
    /\ zone_counts = EmptyDict

Next ==
    \E gap \in FrameGaps, counts \in [ZoneIdSet(polygon_zones) -> CountChoices] :
        CalculateZoneStatuses(gap, counts)

Spec == Init /\ [][Next]_vars

---------------------------------------------------------------------------
(* Several analysis runs of one session (specification SpecRuns) *)

\* _run_analysis_loop is entered again in the same session after the
\* previous run stopped: the timer manager is the one kept in
\* st.session_state (analysis.py lines 396-398), and frame_count restarts
\* (line 421).  Nothing calls reset_all.  The time between the runs is part
\* of the gap before the first frame of the new run.
StartRun ==
    /\ frame_count > 0
    /\ frames < MaxFrames
    /\ frame_count' = 0
    /\ UNCHANGED <<now, frames, zone_timers, flash_state, last_flash_toggle,
                   zone_densities, zone_statuses, zone_timer_data, zone_counts,
                   polygon_zones, geomVars, densityVars, exitVars, audioVars, configVars>>

NextRuns ==
    \/ \E gap \in FrameGaps, counts \in [ZoneIdSet(polygon_zones) -> CountChoices] :
          CalculateZoneStatuses(gap, counts)
    \/ StartRun

SpecRuns == Init /\ [][NextRuns]_vars

---------------------------------------------------------------------------
(* Classification of one count for one area (specification SpecDensity) *)

\* lines 145-152 for one zone
Classify(c) ==
    /\ cls_count' = c
    /\ cls_density' = calculate_density(c, cls_area)
    /\ cls_status' = get_status_by_density(cls_density')
    /\ UNCHANGED <<cls_area, timerVars, geomVars, polygon_zones, zone_counts,
                   exitVars, audioVars, configVars>>

InitDensity ==
    /\ IdleTimers
    /\ IdleGeometry
    /\ IdleExit
    /\ IdleAudio
    /\ IdleConfig
    /\ polygon_zones = DEFAULT_POLYGON_ZONES
    /\ zone_counts = EmptyDict
    /\ cls_area \in (-MaxArea)..MaxArea
    /\ cls_count = 0
    /\ cls_density = calculate_density(cls_count, cls_area)
    /\ cls_status = get_status_by_density(cls_density)

NextDensity == \E c \in 0..MaxCount : Classify(c)

SpecDensity == InitDensity /\ [][NextDensity]_vars

---------------------------------------------------------------------------
(* Zone assignment of one frame's detections (specification SpecGeom) *)

\* zones with no, one and two vertices declared before a zone that covers
\* the whole frame
DegenerateZones ==
    << [id |-> "zone_0", name |-> "Zone A", area |-> 50, polygon |-> << >>],
       [id |-> "zone_1", name |-> "Zone B", area |-> 50,
        polygon |-> << <<0, 0>> >>],
       [id |-> "zone_2", name |-> "Zone C", area |-> 50,
        polygon |-> << <<0, 0>>, <<2, 2>> >>],
       [id |-> "zone_3", name |-> "Zone D", area |-> 50,
        polygon |-> << <<0, 0>>, <<2, 0>>, <<2, 2>>, <<0, 2>> >>] >>

\* the left half of the frame declared before the top half: the top-left
\* quarter lies in both zones, the bottom-right quarter in none
OverlappingZones ==
    << [id |-> "zone_0", name |-> "Zone A", area |-> 50,
        polygon |-> << <<0, 0>>, <<1, 0>>, <<1, 2>>, <<0, 2>> >>],
       [id |-> "zone_1", name |-> "Zone B", area |-> 50,
        polygon |-> << <<0, 0>>, <<2, 0>>, <<2, 1>>, <<0, 1>> >>] >>

GeomLayouts == {DEFAULT_POLYGON_ZONES, DegenerateZones, OverlappingZones}

\* the integer pixel points of the frame
Pixels == (0..(frame_w - 1)) \X (0..(frame_h - 1))

DetectionLists ==
    UNION { [1..n -> {[center |-> c] : c \in Pixels}] : n \in 0..MaxDets }

AssignDetections(dets) ==
    /\ LET res == assign_detections_to_zones(dets, polygon_zones, frame_w, frame_h)
       IN  /\ detections' = res.detections
           /\ zone_counts' = res.zone_counts
    /\ UNCHANGED <<frame_w, frame_h, polygon_zones, timerVars, densityVars,
                   exitVars, audioVars, configVars>>

InitGeom ==
    /\ IdleTimers
    /\ IdleDensity
    /\ IdleExit
    /\ IdleAudio
    /\ IdleConfig
    /\ frame_w \in 1..MaxW
    /\ frame_h \in 1..MaxH
    /\ polygon_zones \in GeomLayouts
    /\ detections = << >>
    /\ zone_counts = [zid \in ZoneIdSet(polygon_zones) |-> 0]

NextGeom == \E dets \in DetectionLists : AssignDetections(dets)

SpecGeom == InitGeom /\ [][NextGeom]_vars

---------------------------------------------------------------------------
(* exit_logic.py: exits, zone-to-exit mapping, exit statuses *)

\* An exit of exit_config is [id, name, zones, x_pct, y_pct]: zones is the
\* list of zone indices (0..3) the exit serves; x_pct and y_pct, in halves,
\* are its place in the frame (config.py, DEFAULT_EXIT_POINTS).  The fields
\* direction and capacity are read by none of the functions below.
\* Exit indices are Python's, from 0; exit idx is exit_config[idx + 1].

\* Python's None where an exit index, a name or a status is expected
NoIdx == -1

NoneName == "None"

ZoneIndices == 0..3

\* lines 44-50: the scan of exit_config for one zone, from index idx on
RECURSIVE MappingScan(_, _, _, _, _)
MappingScan(zone, exit_config_, idx, primary, secondary) ==
    IF idx >= Len(exit_config_) THEN [primary |-> primary, secondary |-> secondary]
    ELSE IF \E k \in 1..Len(exit_config_[idx + 1].zones) :
                exit_config_[idx + 1].zones[k] = zone
         THEN IF primary = NoIdx
              THEN MappingScan(zone, exit_config_, idx + 1, idx, secondary)
              ELSE [primary |-> primary, secondary |-> idx]
         ELSE MappingScan(zone, exit_config_, idx + 1, primary, secondary)

get_zone_exit_mapping(exit_config_) ==
    [zone \in ZoneIndices |-> MappingScan(zone, exit_config_, 0, NoIdx, NoIdx)]

get_exit_status_IgnoresWarning(exit_config_, zone_statuses_) ==
    [idx \in 0..(Len(exit_config_) - 1) |->
        LET zones == exit_config_[idx + 1].zones
            zone_stats == [k \in 1..Len(zones) |->
                              DictGet(zone_statuses_, zones[k], "SAFE")]
        IN  IF \E k \in 1..Len(zones) : zone_stats[k] = "EMERGENCY" THEN "BLOCKED"
            ELSE "OPEN"]

get_exit_status_AllEmergency(exit_config_, zone_statuses_) ==
    [idx \in 0..(Len(exit_config_) - 1) |->
        LET zones == exit_config_[idx + 1].zones
            zone_stats == [k \in 1..Len(zones) |->
                              DictGet(zone_statuses_, zones[k], "SAFE")]
        IN  IF Len(zones) > 0 /\ \A k \in 1..Len(zones) : zone_stats[k] = "EMERGENCY"
            THEN "BLOCKED"
            ELSE IF \E k \in 1..Len(zones) : zone_stats[k] = "WARNING" THEN "CROWDED"
            ELSE "OPEN"]

get_exit_status(exit_config_, zone_statuses_) ==
    [idx \in 0..(Len(exit_config_) - 1) |->
        LET zones == exit_config_[idx + 1].zones
            zone_stats == [k \in 1..Len(zones) |->
                              DictGet(zone_statuses_, zones[k], "SAFE")]
        IN  IF \E k \in 1..Len(zones) : zone_stats[k] = "EMERGENCY" THEN "BLOCKED"
            ELSE IF \E k \in 1..Len(zones) : zone_stats[k] = "WARNING" THEN "CROWDED"
            ELSE "OPEN"]

get_best_exit_for_zone_CrowdedPrimaryFirst(zone, exit_config_, zone_exit_mapping_, exit_statuses_) ==
    LET mapping == DictGet(zone_exit_mapping_, zone,
                           [primary |-> NoIdx, secondary |-> NoIdx])
        primary_idx == mapping.primary
        secondary_idx == mapping.secondary
        StatusOf(idx) == DictGet(exit_statuses_, idx, NoneName)
    IN  IF primary_idx # NoIdx /\ StatusOf(primary_idx) = "OPEN"
        THEN exit_config_[primary_idx + 1]
        ELSE IF primary_idx # NoIdx /\ StatusOf(primary_idx) = "CROWDED"
        THEN exit_config_[primary_idx + 1]
        ELSE IF secondary_idx # NoIdx /\ StatusOf(secondary_idx) = "OPEN"
        THEN exit_config_[secondary_idx + 1]
        ELSE IF secondary_idx # NoIdx /\ StatusOf(secondary_idx) = "CROWDED"
        THEN exit_config_[secondary_idx + 1]
        ELSE None

get_best_exit_for_zone_AnyStatus(zone, exit_config_, zone_exit_mapping_, exit_statuses_) ==
    LET mapping == DictGet(zone_exit_mapping_, zone,
                           [primary |-> NoIdx, secondary |-> NoIdx])
        primary_idx == mapping.primary
        secondary_idx == mapping.secondary
        StatusOf(idx) == DictGet(exit_statuses_, idx, NoneName)
    IN  IF primary_idx # NoIdx /\ StatusOf(primary_idx) = "OPEN"
        THEN exit_config_[primary_idx + 1]
        ELSE IF secondary_idx # NoIdx /\ StatusOf(secondary_idx) = "OPEN"
        THEN exit_config_[secondary_idx + 1]
        ELSE IF primary_idx # NoIdx
        THEN exit_config_[primary_idx + 1]
        ELSE IF secondary_idx # NoIdx
        THEN exit_config_[secondary_idx + 1]
        ELSE None

\* a missing mapping is {} and a missing key of it None (lines 125-127)
get_best_exit_for_zone(zone, exit_config_, zone_exit_mapping_, exit_statuses_) ==
    LET mapping == DictGet(zone_exit_mapping_, zone,
                           [primary |-> NoIdx, secondary |-> NoIdx])
        primary_idx == mapping.primary
        secondary_idx == mapping.secondary
        StatusOf(idx) == DictGet(exit_statuses_, idx, NoneName)
    IN  IF primary_idx # NoIdx /\ StatusOf(primary_idx) = "OPEN"
        THEN exit_config_[primary_idx + 1]
        ELSE IF secondary_idx # NoIdx /\ StatusOf(secondary_idx) = "OPEN"
        THEN exit_config_[secondary_idx + 1]
        ELSE IF primary_idx # NoIdx /\ StatusOf(primary_idx) = "CROWDED"
        THEN exit_config_[primary_idx + 1]
        ELSE IF secondary_idx # NoIdx /\ StatusOf(secondary_idx) = "CROWDED"
        THEN exit_config_[secondary_idx + 1]
        ELSE None

---------------------------------------------------------------------------
(* Places in pixel space: zone_logic.py and configuration.py *)

\* get_polygon_centroid: int(sum(xs) / len(xs)) with xs = x_pct * frame_w;
\* the percentages are in halves, hence the division by 2 * n
get_polygon_centroid(polygon_pct, w, h) ==
    LET n == Len(polygon_pct)
        RECURSIVE Sum(_, _)
        Sum(i, c) == IF i > n THEN 0 ELSE polygon_pct[i][c] + Sum(i + 1, c)
    IN  IF n = 0 THEN <<w \div 2, h \div 2>>
        ELSE <<(Sum(1, 1) * w) \div (2 * n), (Sum(1, 2) * h) \div (2 * n)>>

\* the pixel of an exit point: int(x_pct * w), int(y_pct * h)
ExitPixel(exit, w, h) == <<(exit.x_pct * w) \div 2, (exit.y_pct * h) \div 2>>

---------------------------------------------------------------------------
(* The global alert level: zone_logic.py and evacuation.py *)

\* list(d.values()) of a dictionary keyed by zone index, in key order
RECURSIVE DictValuesFrom(_, _)
DictValuesFrom(d, keys) ==
    IF keys = {} THEN << >>
    ELSE LET k == CHOOSE x \in keys : \A y \in keys : x <= y
         IN  <<d[k]>> \o DictValuesFrom(d, keys \ {k})

DictValues(d) == DictValuesFrom(d, DOMAIN d)

\* zone_logic.py, lines 225-227: the loop from value number i on
RECURSIVE AlertLoop(_, _, _)
AlertLoop(values, i, max_level) ==
    IF i > Len(values) THEN max_level
    ELSE AlertLoop(values, i + 1,
                   IF DictGet(priority, values[i], 0) > DictGet(priority, max_level, 0)
                   THEN values[i] ELSE max_level)

get_global_alert_level_LastWins(zone_statuses_) ==
    LET values == DictValues(zone_statuses_)
    IN  IF values = << >> THEN "SAFE" ELSE values[Len(values)]

get_global_alert_level(zone_statuses_) ==
    AlertLoop(DictValues(zone_statuses_), 1, "SAFE")

\* evacuation.py, lines 134-153
evacuation_get_global_alert_level(zone_statuses_) ==
    LET statuses == DictValues(zone_statuses_)
        In(x) == \E i \in 1..Len(statuses) : statuses[i] = x
    IN  IF In("EMERGENCY") THEN "EMERGENCY"
        ELSE IF In("WARNING") THEN "WARNING"
        ELSE IF In("MODERATE") THEN "MODERATE"
        ELSE "SAFE"

---------------------------------------------------------------------------
(* evacuation.py: generate_instructions *)

\* A message is kept as <<text, exit>>: the fixed words of the f-string and
\* the exit name put into it (NoneName when the message names no exit).
\* The fields count and density of an instruction are copies of arguments.

Truthy(name) == name # NoneName /\ name # ""

\* lines 89-101
WarningOutcome_CrowdedBeforeRedirect(primary_status, primary_exit_name, secondary_status, secondary_exit_name) ==
    IF primary_status = "OPEN" /\ Truthy(primary_exit_name)
    THEN [action |-> "PREPARE",
          message |-> <<"Prepare evacuation via", primary_exit_name>>]
    ELSE IF primary_status = "CROWDED" /\ Truthy(primary_exit_name)
    THEN [action |-> "CAUTION",
          message |-> <<"Use with caution", primary_exit_name>>]
    ELSE IF secondary_status = "OPEN" /\ Truthy(secondary_exit_name)
    THEN [action |-> "REDIRECT",
          message |-> <<"REDIRECT to", secondary_exit_name>>]
    ELSE [action |-> "HOLD",
          message |-> <<"All exits congested - control crowd.", NoneName>>]

WarningOutcome(primary_status, primary_exit_name, secondary_status, secondary_exit_name) ==
    IF primary_status = "OPEN" /\ Truthy(primary_exit_name)
    THEN [action |-> "PREPARE",
          message |-> <<"Prepare evacuation via", primary_exit_name>>]
    ELSE IF secondary_status = "OPEN" /\ Truthy(secondary_exit_name)
    THEN [action |-> "REDIRECT",
          message |-> <<"REDIRECT to", secondary_exit_name>>]
    ELSE IF primary_status = "CROWDED" /\ Truthy(primary_exit_name)
    THEN [action |-> "CAUTION",
          message |-> <<"Use with caution", primary_exit_name>>]
    ELSE [action |-> "HOLD",
          message |-> <<"All exits congested - control crowd.", NoneName>>]

\* lines 103-118
EmergencyOutcome_BlockedPasses(primary_status, primary_exit_name, secondary_status, secondary_exit_name) ==
    IF primary_status = "OPEN" /\ Truthy(primary_exit_name)
    THEN [action |-> "EVACUATE",
          message |-> <<"EVACUATE via IMMEDIATELY!", primary_exit_name>>]
    ELSE IF secondary_status = "OPEN" /\ Truthy(secondary_exit_name)
    THEN [action |-> "EVACUATE_ALT",
          message |-> <<"EVACUATE via (alternate route)!", secondary_exit_name>>]
    ELSE IF primary_status # NoneName /\ Truthy(primary_exit_name)
    THEN [action |-> "EVACUATE_CROWDED",
          message |-> <<"Use (congested but passable)!", primary_exit_name>>]
    ELSE IF secondary_status # NoneName /\ Truthy(secondary_exit_name)
    THEN [action |-> "EVACUATE_CROWDED",
          message |-> <<"Use (congested)!", secondary_exit_name>>]
    ELSE [action |-> "AWAIT_RESCUE",
          message |-> <<"AWAIT RESCUE. All exits blocked!", NoneName>>]

EmergencyOutcome(primary_status, primary_exit_name, secondary_status, secondary_exit_name) ==
    IF primary_status = "OPEN" /\ Truthy(primary_exit_name)
    THEN [action |-> "EVACUATE",
          message |-> <<"EVACUATE via IMMEDIATELY!", primary_exit_name>>]
    ELSE IF secondary_status = "OPEN" /\ Truthy(secondary_exit_name)
    THEN [action |-> "EVACUATE_ALT",
          message |-> <<"EVACUATE via (alternate route)!", secondary_exit_name>>]
    ELSE IF primary_status = "CROWDED" /\ Truthy(primary_exit_name)
    THEN [action |-> "EVACUATE_CROWDED",
          message |-> <<"Use (congested but passable)!", primary_exit_name>>]
    ELSE IF secondary_status = "CROWDED" /\ Truthy(secondary_exit_name)
    THEN [action |-> "EVACUATE_CROWDED",
          message |-> <<"Use (congested)!", secondary_exit_name>>]
    ELSE [action |-> "AWAIT_RESCUE",
          message |-> <<"AWAIT RESCUE. All exits blocked!", NoneName>>]

\* lines 56-129 for one zone
InstructionFor(zone, zone_statuses_, exit_config_, zone_exit_mapping_, exit_statuses_) ==
    LET status == DictGet(zone_statuses_, zone, "SAFE")
        mapping == DictGet(zone_exit_mapping_, zone,
                           [primary |-> NoIdx, secondary |-> NoIdx])
        primary_idx == mapping.primary
        secondary_idx == mapping.secondary
        has_primary == primary_idx # NoIdx /\ primary_idx < Len(exit_config_)
        has_secondary == secondary_idx # NoIdx /\ secondary_idx < Len(exit_config_)
        primary_exit_name ==
            IF has_primary THEN exit_config_[primary_idx + 1].name ELSE NoneName
        primary_status ==
            IF has_primary THEN DictGet(exit_statuses_, primary_idx, "OPEN")
            ELSE NoneName
        secondary_exit_name ==
            IF has_secondary THEN exit_config_[secondary_idx + 1].name ELSE NoneName
        secondary_status ==
            IF has_secondary THEN DictGet(exit_statuses_, secondary_idx, "OPEN")
            ELSE NoneName
        out ==
            IF status = "SAFE"
            THEN [action |-> "MONITOR",
                  message |-> <<"Normal. Continue monitoring.", NoneName>>]
            ELSE IF status = "MODERATE"
            THEN [action |-> "CONTROL",
                  message |-> <<"Moderate density. Control entry flow.", NoneName>>]
            ELSE IF status = "WARNING"
            THEN WarningOutcome(primary_status, primary_exit_name,
                                secondary_status, secondary_exit_name)
            ELSE EmergencyOutcome(primary_status, primary_exit_name,
                                  secondary_status, secondary_exit_name)
    IN  [zone |-> zone, status |-> status, message |-> out.message,
         action |-> out.action, primary_exit |-> primary_exit_name,
         secondary_exit |-> secondary_exit_name]

\* an instruction only for the zones that have a mapped exit
generate_instructions_SkipsUnmapped(zone_statuses_, exit_config_, zone_exit_mapping_, exit_statuses_) ==
    LET all == [i \in 1..4 |-> InstructionFor(i - 1, zone_statuses_, exit_config_,
                                              zone_exit_mapping_, exit_statuses_)]
    IN  SelectSeq(all, LAMBDA ins : ins.primary_exit # NoneName)

\* the list of the instructions of zones 0..3, in that order
generate_instructions(zone_statuses_, exit_config_, zone_exit_mapping_, exit_statuses_) ==
    [i \in 1..4 |-> InstructionFor(i - 1, zone_statuses_, exit_config_,
                                   zone_exit_mapping_, exit_statuses_)]

---------------------------------------------------------------------------
(* Status maps given to the alert level, the exit logic and the audio alerts *)

Status == {"SAFE", "MODERATE", "WARNING", "EMERGENCY"}

ExitStatus == {"OPEN", "CROWDED", "BLOCKED"}

\* the dictionaries that give a status to some of the zones of Z
StatusMaps(Z) == UNION { [D -> Status] : D \in SUBSET Z }

---------------------------------------------------------------------------
(* The global alert level of one status map (specification SpecAlert) *)

GlobalAlert(zs) ==
    /\ route_zone_statuses' = zs
    /\ global_alert' = [zone_logic |-> get_global_alert_level(zs),
                        evacuation |-> evacuation_get_global_alert_level(zs)]
    /\ UNCHANGED <<exit_config, zone_exit_mapping, exit_statuses, instructions,
                   best_exit, route_call, timerVars, geomVars, densityVars, polygon_zones,
                   zone_counts, audioVars, configVars>>

InitAlert ==
    /\ IdleTimers
    /\ IdleGeometry
    /\ IdleDensity
    /\ IdleExit
    /\ IdleAudio
    /\ IdleConfig
    /\ polygon_zones = DEFAULT_POLYGON_ZONES
    /\ zone_counts = EmptyDict

NextAlert == \E zs \in StatusMaps(ZoneIndices) : GlobalAlert(zs)

SpecAlert == InitAlert /\ [][NextAlert]_vars

---------------------------------------------------------------------------
(* Routing of one frame's zone statuses (specification SpecExit) *)

\* places, names and ids of the exits by index; the first two are those of
\* DEFAULT_EXIT_POINTS (top middle and bottom middle of the frame)
ExitPlaces == << <<1, 0>>, <<1, 2>>, <<0, 1>>, <<2, 1>>, <<0, 0>> >>

ExitNames == <<"Main Gate", "South Exit", "West Exit", "East Exit", "Corner Exit">>

ExitIds == <<"exit_0", "exit_1", "exit_2", "exit_3", "exit_4">>

\* the zone lists an exit may have
ZoneLists == { << >>, <<2>>, <<0, 2>> }

\* the exits that may stand at index idx: one per zone list, and one whose
\* name was left empty
ExitsAt(idx) ==
    LET k == (idx % Len(ExitPlaces)) + 1
        Exit(name, zones) ==
            [id |-> ExitIds[k], name |-> name, zones |-> zones,
             x_pct |-> ExitPlaces[k][1], y_pct |-> ExitPlaces[k][2]]
    IN  {Exit(ExitNames[k], zl) : zl \in ZoneLists} \cup {Exit("", <<0, 2>>)}

ExitConfigs ==
    UNION { {cfg \in [1..n -> UNION {ExitsAt(i) : i \in 0..(n - 1)}] :
                \A i \in 1..n : cfg[i] \in ExitsAt(i - 1)} : n \in 0..MaxExits }

\* lines 452-453 of analysis.py and 229-235 of evacuation.py, then the
\* best exit of every zone and the global alert level of the frame
Route(zs, es) ==
    /\ instructions = << >>
    /\ route_zone_statuses' = zs
    /\ zone_exit_mapping' = get_zone_exit_mapping(exit_config)
    /\ exit_statuses' = es
    /\ instructions' = generate_instructions(zs, exit_config, zone_exit_mapping', es)
    /\ best_exit' = [zone \in ZoneIndices |->
                        get_best_exit_for_zone(zone, exit_config, zone_exit_mapping', es)]
    /\ global_alert' = [zone_logic |-> get_global_alert_level(zs),
                        evacuation |-> evacuation_get_global_alert_level(zs)]
    /\ UNCHANGED <<exit_config, timerVars, geomVars, densityVars, polygon_zones,
                   zone_counts, audioVars, configVars>>

\* generate_evacuation_instructions: the exit statuses are those
\* get_exit_status derives from the zones (line 229)
RouteDerived ==
    /\ instructions = << >>
    /\ route_call' = "generate_evacuation_instructions"
    /\ \E zs \in StatusMaps({0, 2}) :
          Route(zs, get_exit_status(exit_config, zs))

\* generate_instructions: the exit statuses are the caller's
RouteGiven ==
    /\ instructions = << >>
    /\ route_call' = "generate_instructions"
    /\ \E zs \in StatusMaps({0, 2}),
          es \in [0..(Len(exit_config) - 1) -> ExitStatus] : Route(zs, es)

InitExit ==
    /\ IdleTimers
    /\ IdleGeometry
    /\ IdleDensity
    /\ IdleAudio
    /\ IdleConfig
    /\ polygon_zones = DEFAULT_POLYGON_ZONES
    /\ zone_counts = EmptyDict
    /\ exit_config \in ExitConfigs
    /\ route_zone_statuses = EmptyDict
    /\ zone_exit_mapping = EmptyDict
    /\ exit_statuses = EmptyDict
    /\ instructions = << >>
    /\ best_exit = EmptyDict
    /\ global_alert = [zone_logic |-> "SAFE", evacuation |-> "SAFE"]
    /\ route_call = "none"

NextExit ==
    \/ RouteDerived
    \/ RouteGiven

SpecExit == InitExit /\ [][NextExit]_vars

---------------------------------------------------------------------------
(* audio_alerts.py: AudioAlertSystem.  Durations are in tenths of a second. *)

\* self.patterns: <<beeps_count, interval>>
patterns == [SAFE |-> <<0, 0>>, MODERATE |-> <<1, 50>>, WARNING |-> <<2, 30>>,
             EMERGENCY |-> <<3, 10>>, CRITICAL |-> <<5, 5>>]

\* join(timeout=1.0)
JOIN_TIMEOUT == 10

\* A thread is [pc, interval].  pc is "loop" at the test of line 159, "beep"
\* in the for loop of lines 171-180 (which tests stop_flag before every
\* beep) up to the test of line 183, "sleep" inside a time.sleep and "dead"
\* after the loop was left; interval is the local variable interval while
\* beeping and the duration of the sleep while sleeping.
Thread(pc, interval) == [pc |-> pc, interval |-> interval]

\* the audio system touches nothing else
RestUnchanged ==
    UNCHANGED <<timerVars, geomVars, densityVars, exitVars, polygon_zones,
                zone_counts, configVars>>

IsAlive(t) == t # 0 /\ threads[t].pc # "dead"

\* _alert_loop: one step of thread t
AlertLoopStep(t) ==
    /\ t \in 1..Len(threads)
    /\ threads[t].pc # "dead"
    /\ threads' = [threads EXCEPT ![t] =
          CASE threads[t].pc = "loop" ->
                 IF stop_flag THEN Thread("dead", 0)
                 ELSE IF current_alert = "SAFE" THEN Thread("sleep", 1)
                 ELSE LET pattern == DictGet(patterns, current_alert, <<0, 0>>)
                      IN  IF pattern[1] = 0 THEN Thread("sleep", 1)
                          ELSE Thread("beep", pattern[2])
            [] threads[t].pc = "beep" ->
                 IF stop_flag THEN Thread("loop", 0)
                 ELSE Thread("sleep", threads[t].interval)
            [] threads[t].pc = "sleep" -> Thread("loop", 0)]
    /\ UNCHANGED <<audio_enabled, current_alert, stop_flag, alert_thread,
                   main_pc, call>>
    /\ RestUnchanged

\* update_alert, lines 236-251
new_alert_CountsOne(zone_statuses_) ==
    LET statuses == DictValues(zone_statuses_)
        emergency_count ==
            Cardinality({i \in 1..Len(statuses) : statuses[i] = "EMERGENCY"})
        In(x) == \E i \in 1..Len(statuses) : statuses[i] = x
    IN  IF emergency_count >= 1 THEN "CRITICAL"
        ELSE IF In("EMERGENCY") THEN "EMERGENCY"
        ELSE IF In("WARNING") THEN "WARNING"
        ELSE IF In("MODERATE") THEN "MODERATE"
        ELSE "SAFE"

new_alert(zone_statuses_) ==
    LET statuses == DictValues(zone_statuses_)
        emergency_count ==
            Cardinality({i \in 1..Len(statuses) : statuses[i] = "EMERGENCY"})
        In(x) == \E i \in 1..Len(statuses) : statuses[i] = x
    IN  IF emergency_count >= 2 THEN "CRITICAL"
        ELSE IF In("EMERGENCY") THEN "EMERGENCY"
        ELSE IF In("WARNING") THEN "WARNING"
        ELSE IF In("MODERATE") THEN "MODERATE"
        ELSE "SAFE"

\* lines 207-210 of start_alert: does the call start a thread
StartsThread_Always(alert_level) == TRUE

StartsThread(alert_level) == alert_level # "SAFE"

\* The rest of a call once stop_alert's join has returned: line 217, then
\* for start_alert lines 200-210, for disable line 283.
AfterJoin(op, alert_level) ==
    /\ main_pc' = "idle"
    /\ audio_enabled' = IF op = "disable" THEN FALSE ELSE audio_enabled
    /\ IF op \in {"start_alert", "update_alert"} /\ alert_level \in DOMAIN patterns
       THEN /\ current_alert' = alert_level
            /\ IF StartsThread(alert_level)
               THEN /\ stop_flag' = FALSE
                    /\ threads' = Append(threads, Thread("loop", 0))
                    /\ alert_thread' = Len(threads) + 1
               ELSE /\ stop_flag' = TRUE
                    /\ UNCHANGED <<threads, alert_thread>>
       ELSE /\ current_alert' = "SAFE"
            /\ stop_flag' = TRUE
            /\ UNCHANGED <<threads, alert_thread>>

\* stop_alert, lines 214-216, at the start of a call: the flag is set and
\* the call waits in join when the alert thread is alive
EnterStop(op, alert_level, zs) ==
    /\ call' = [op |-> op, level |-> alert_level, zone_statuses |-> zs,
                enabled |-> audio_enabled]
    /\ IF IsAlive(alert_thread)
       THEN /\ main_pc' = "join"
            /\ stop_flag' = TRUE
            /\ UNCHANGED <<audio_enabled, current_alert, alert_thread, threads>>
       ELSE AfterJoin(op, alert_level)

\* a call that returns at once (lines 193-194, 233-234, 254)
ReturnAtOnce(op, alert_level, zs) ==
    /\ call' = [op |-> op, level |-> alert_level, zone_statuses |-> zs,
                enabled |-> audio_enabled]
    /\ UNCHANGED <<audio_enabled, current_alert, stop_flag, alert_thread,
                   threads, main_pc>>

\* no thread is left to create
ThreadsSpent(alert_level) ==
    /\ alert_level \in DOMAIN patterns
    /\ StartsThread(alert_level)
    /\ Len(threads) >= MaxThreads

start_alert(alert_level) ==
    /\ main_pc = "idle"
    /\ ~ (audio_enabled /\ ThreadsSpent(alert_level))
    /\ IF ~ audio_enabled
       THEN ReturnAtOnce("start_alert", alert_level, EmptyDict)
       ELSE EnterStop("start_alert", alert_level, EmptyDict)
    /\ RestUnchanged

stop_alert ==
    /\ main_pc = "idle"
    /\ EnterStop("stop_alert", "SAFE", EmptyDict)
    /\ RestUnchanged

update_alert_AlwaysRestarts(zone_statuses_) ==
    /\ main_pc = "idle"
    /\ LET level == new_alert(zone_statuses_)
       IN  /\ ~ (audio_enabled /\ ThreadsSpent(level))
           /\ IF ~ audio_enabled
              THEN ReturnAtOnce("update_alert", level, zone_statuses_)
              ELSE EnterStop("update_alert", level, zone_statuses_)
    /\ RestUnchanged

update_alert(zone_statuses_) ==
    /\ main_pc = "idle"
    /\ LET level == new_alert(zone_statuses_)
       IN  /\ ~ (audio_enabled /\ level # current_alert /\ ThreadsSpent(level))
           /\ IF ~ audio_enabled \/ level = current_alert
              THEN ReturnAtOnce("update_alert", level, zone_statuses_)
              ELSE EnterStop("update_alert", level, zone_statuses_)
    /\ RestUnchanged

disable ==
    /\ main_pc = "idle"
    /\ EnterStop("disable", "SAFE", EmptyDict)
    /\ RestUnchanged

enable ==
    /\ main_pc = "idle"
    /\ audio_enabled' = TRUE
    /\ call' = [op |-> "enable", level |-> "SAFE", zone_statuses |-> EmptyDict,
                enabled |-> audio_enabled]
    /\ UNCHANGED <<current_alert, stop_flag, alert_thread, threads, main_pc>>
    /\ RestUnchanged

\* join(timeout=1.0) returns: the thread has ended, or it is inside a sleep
\* longer than the timeout
JoinReturns ==
    /\ main_pc = "join"
    /\ \/ ~ IsAlive(alert_thread)
       \/ /\ threads[alert_thread].pc = "sleep"
          /\ threads[alert_thread].interval > JOIN_TIMEOUT
    /\ AfterJoin(call.op, call.level)
    /\ UNCHANGED call
    /\ RestUnchanged

---------------------------------------------------------------------------
(* One AudioAlertSystem, its caller and its threads (specification SpecAudio) *)

AlertLevels == DOMAIN patterns \cup {"LOUD"}

\* the status maps the frame loop hands to update_alert
AudioStatusMaps == StatusMaps({0, 1})

InitAudio ==
    /\ IdleTimers
    /\ IdleGeometry
    /\ IdleDensity
    /\ IdleExit
    /\ IdleAudio
    /\ IdleConfig
    /\ polygon_zones = DEFAULT_POLYGON_ZONES
    /\ zone_counts = EmptyDict

NextAudio ==
    \/ \E alert_level \in AlertLevels : start_alert(alert_level)
    \/ stop_alert
    \/ \E zs \in AudioStatusMaps : update_alert(zs)
    \/ disable
    \/ enable
    \/ JoinReturns
    \/ \E t \in 1..MaxThreads : AlertLoopStep(t)

SpecAudio == InitAudio /\ [][NextAudio]_vars

---------------------------------------------------------------------------
(* page_modules/configuration.py: the configuration page *)

\* lines 255-264
zones_match_defaults(current) ==
    /\ Len(current) = Len(DEFAULT_POLYGON_ZONES)
    /\ \A k \in 1..Len(current) :
          current[k].polygon = DEFAULT_POLYGON_ZONES[k].polygon

CanvasZoneId(idx) == <<"zone_0", "zone_1", "zone_2", "zone_3">>[idx + 1]

CanvasZoneName(idx) == <<"Zone 1", "Zone 2", "Zone 3", "Zone 4">>[idx + 1]

\* lines 342-358: the zones built from the polygons the canvas returned;
\* a polygon of fewer than 3 points is dropped
new_zones(raw, existing) ==
    LET all == [k \in 1..Len(raw) |->
                   [id |-> CanvasZoneId(k - 1),
                    name |-> IF k - 1 < Len(existing) THEN existing[k].name
                             ELSE CanvasZoneName(k - 1),
                    area |-> IF k - 1 < Len(existing) THEN existing[k].area
                             ELSE DEFAULT_ZONE_AREA,
                    polygon |-> raw[k]]]
    IN  SelectSeq(all, LAMBDA zone : Len(zone.polygon) >= 3)

\* _render_zone_canvas: the zones it leaves, and whether it called st.rerun;
\* result is the component's value, None (its default) or [type, data]
render_zone_canvas(zones, video, result) ==
    IF video = NoneName \/ result = None \/ result.type # "zones"
    THEN [zones |-> zones, rerun |-> FALSE]
    ELSE LET built == new_zones(result.data, zones)
         IN  [zones |-> built, rerun |-> built # zones]

\* _render_zone_editor, which render calls before the buttons (analysis is
\* not running while the page is edited)
render_zone_editor(mode, zones, video, result) ==
    IF mode = "Use Default Zones"
    THEN [zones |-> DEFAULT_POLYGON_ZONES, rerun |-> FALSE]
    ELSE render_zone_canvas(IF zones_match_defaults(zones) THEN << >> ELSE zones,
                            video, result)

\* One run of render with no button pressed; mode and video are the values
\* the widgets hold in this run.
Render(mode, video, result) ==
    /\ current_page = "config"
    /\ zone_mode' = mode
    /\ video_file' = video
    /\ polygon_zones' = render_zone_editor(mode, polygon_zones, video, result).zones
    /\ notice' = "None"
    /\ UNCHANGED <<config_saved, current_page>>
    /\ UNCHANGED <<timerVars, geomVars, densityVars, exitVars, audioVars, zone_counts>>

\* the file uploader returns a file (lines 191-193)
UploadVideo == Render(zone_mode, "video", None)

\* the radio of the zone editor is switched (lines 280-283)
SwitchZoneMode ==
    \E mode \in {"Use Default Zones", "Draw Custom Zones"} :
        mode # zone_mode /\ Render(mode, video_file, None)

\* the canvas returns a result of type "zones" (Done - Apply)
CanvasResult(raw) ==
    /\ zone_mode = "Draw Custom Zones"
    /\ Render(zone_mode, video_file, [type |-> "zones", data |-> raw])

\* the Save Configuration button (lines 559-565)
SaveConfiguration ==
    /\ current_page = "config"
    /\ LET zones == render_zone_editor(zone_mode, polygon_zones, video_file, None).zones
       IN  /\ polygon_zones' = zones
           /\ IF zones = << >>
              THEN /\ notice' = "At least one detection zone is required."
                   /\ UNCHANGED config_saved
              ELSE /\ notice' = "Configuration saved!"
                   /\ config_saved' = TRUE
    /\ UNCHANGED <<zone_mode, video_file, current_page>>
    /\ UNCHANGED <<timerVars, geomVars, densityVars, exitVars, audioVars, zone_counts>>

\* the Start Analysis button (lines 567-575)
StartAnalysis ==
    /\ current_page = "config"
    /\ polygon_zones' =
          render_zone_editor(zone_mode, polygon_zones, video_file, None).zones
    /\ IF video_file = NoneName
       THEN /\ notice' = "Upload a video first"
            /\ UNCHANGED current_page
       ELSE IF ~config_saved
       THEN /\ notice' = "Save configuration first"
            /\ UNCHANGED current_page
       ELSE /\ current_page' = "analysis"
            /\ notice' = "None"
    /\ UNCHANGED <<zone_mode, video_file, config_saved>>
    /\ UNCHANGED <<timerVars, geomVars, densityVars, exitVars, audioVars, zone_counts>>

---------------------------------------------------------------------------
(* A session on the configuration page (specification SpecConfig) *)

\* what the user draws: two triangles and a line of two points
PolyChoices ==
    { << <<0, 0>>, <<2, 0>>, <<0, 2>> >>,
      << <<2, 2>>, <<2, 0>>, <<0, 2>> >>,
      << <<0, 0>>, <<2, 2>> >> }

RECURSIVE CanvasResultsOf(_)
CanvasResultsOf(n) ==
    IF n = 0 THEN { << >> }
    ELSE LET shorter == CanvasResultsOf(n - 1)
         IN  shorter \cup {Append(raw, poly) : raw \in {r \in shorter : Len(r) = n - 1},
                                                poly \in PolyChoices}

CanvasResults == CanvasResultsOf(MaxPolys)

InitConfig ==
    /\ IdleTimers
    /\ IdleGeometry
    /\ IdleDensity
    /\ IdleExit
    /\ IdleAudio
    /\ IdleConfig
    /\ polygon_zones = DEFAULT_POLYGON_ZONES
    /\ zone_counts = EmptyDict

NextConfig ==
    \/ UploadVideo
    \/ SwitchZoneMode
    \/ \E raw \in CanvasResults : CanvasResult(raw)
    \/ SaveConfiguration
    \/ StartAnalysis

SpecConfig == InitConfig /\ [][NextConfig]_vars

---------------------------------------------------------------------------
(* visualization.py: the test the timer overlay makes before drawing *)

TimerIsActive(timer_data) == DictGet(timer_data, "active", FALSE)

---------------------------------------------------------------------------
(* Properties of the frame loop (specification Spec) *)

Manager == TimerManager(zone_timers, flash_state, last_flash_toggle)

Zones == ZoneIdSet(polygon_zones)

\* C1: a zone that has been in EMERGENCY on every frame since its timer
\* started is reported WARNING while elapsed < 30 s, CRITICAL while
\* 30 s <= elapsed < 60 s and SEVERE from 60 s on.
C1_SeverityTiers ==
    \A z \in DOMAIN zone_timer_data :
        LET e == zone_timer_data[z].elapsed
            s == zone_timer_data[z].severity
        IN  /\ e < 30 * 4 => s = "WARNING"
            /\ (e >= 30 * 4 /\ e < 60 * 4) => s = "CRITICAL"
            /\ e >= 60 * 4 => s = "SEVERE"

\* C2: a frame that reports a zone as anything but EMERGENCY removes the
\* zone from all three dictionaries of the manager and from the timer data,
\* whatever its elapsed time was; a frame that brings a zone without a timer
\* into EMERGENCY creates a timer that starts now, with elapsed 0, severity
\* WARNING and the flash visible.
C2_Step ==
    \A z \in Zones :
        /\ zone_statuses'[z] # "EMERGENCY" =>
              /\ z \notin DOMAIN zone_timers'
              /\ z \notin DOMAIN flash_state'
              /\ z \notin DOMAIN last_flash_toggle'
              /\ z \notin DOMAIN zone_timer_data'
        /\ (z \notin DOMAIN zone_timers /\ zone_statuses'[z] = "EMERGENCY") =>
              /\ zone_timers'[z] = [start_time |-> now', elapsed |-> 0]
              /\ flash_state'[z] = TRUE
              /\ last_flash_toggle'[z] = now'
              /\ zone_timer_data'[z].elapsed = 0
              /\ zone_timer_data'[z].severity = "WARNING"

C2_ResetNeverResume == [][C2_Step]_vars

\* a timer that reads elapsed 0 more than 60 s after the first frame, next
\* to a zone in WARNING that has no entry in any dictionary
C2_Witness ==
    /\ frames >= 3
    /\ now > 60 * 4
    /\ \E z \in DOMAIN zone_timers :
          /\ zone_timers[z] = [start_time |-> now, elapsed |-> 0]
          /\ zone_timer_data[z].severity = "WARNING"
    /\ \E z \in DOMAIN zone_statuses :
          zone_statuses[z] = "WARNING" /\ z \notin DOMAIN flash_state

\* C3: after every call of calculate_zone_statuses a zone has a timer, and
\* an entry in the returned timer data, exactly when its status of that
\* frame is EMERGENCY.
C3_TimerIffEmergency ==
    frames > 0 =>
        \A z \in Zones :
            /\ (z \in DOMAIN zone_timers) <=> (zone_statuses[z] = "EMERGENCY")
            /\ (z \in DOMAIN zone_timer_data) <=> (zone_statuses[z] = "EMERGENCY")

\* one zone in EMERGENCY with a timer beside a zone in WARNING without one
C3_Witness ==
    \E z1, z2 \in DOMAIN zone_statuses :
        /\ zone_statuses[z1] = "EMERGENCY" /\ z1 \in DOMAIN zone_timer_data
        /\ zone_statuses[z2] = "WARNING" /\ z2 \notin DOMAIN zone_timers

\* C4: get_timer_data returns None exactly for a zone without a timer, and
\* for a zone with a timer a record with active = TRUE, the elapsed time,
\* the formatted time, the severity and the flash visibility, which the
\* overlay's test of the active field accepts.
C4_TimerDataActive ==
    \A z \in Zones :
        LET td == get_timer_data(Manager, z, now).ret
        IN  /\ (td = None) <=> (z \notin DOMAIN zone_timers)
            /\ z \in DOMAIN zone_timers =>
                  /\ {"active", "elapsed", "formatted_time", "severity"}
                        \subseteq DOMAIN td
                  /\ TimerIsActive(td)

\* C5: across a frame that keeps a zone's timer, the flash state toggles
\* (and the toggle time becomes now) exactly when the severity is SEVERE
\* and at least 0.5 s have passed since the last toggle; otherwise both are
\* kept.  The reported flash value is TRUE whenever the severity is not
\* SEVERE and the flash state when it is.
C5_Step ==
    /\ \A z \in (DOMAIN zone_timers) \cap (DOMAIN zone_timers') :
          LET toggles == /\ zone_timer_data'[z].severity = "SEVERE"
                         /\ 2 * (now' - last_flash_toggle[z]) >= 4
          IN  /\ toggles => /\ flash_state'[z] = ~ flash_state[z]
                             /\ last_flash_toggle'[z] = now'
              /\ ~ toggles => /\ flash_state'[z] = flash_state[z]
                               /\ last_flash_toggle'[z] = last_flash_toggle[z]
    /\ \A z \in DOMAIN zone_timer_data' :
          /\ zone_timer_data'[z].severity # "SEVERE" =>
                zone_timer_data'[z].flash = TRUE /\ flash_state'[z] = TRUE
          /\ zone_timer_data'[z].severity = "SEVERE" =>
                zone_timer_data'[z].flash = flash_state'[z]

C5_FlashOnlyWhenSevere == [][C5_Step]_vars

\* a SEVERE timer whose flash has gone off and come back on
C5_Witness ==
    \E z \in DOMAIN zone_timer_data :
        /\ zone_timer_data[z].severity = "SEVERE"
        /\ zone_timer_data[z].flash = TRUE
        /\ last_flash_toggle[z] > zone_timers[z].start_time + 60 * 4

\* C8: a zone whose area is zero or negative has density 0 and status SAFE
\* after every frame, whatever its count, and never has a timer.
C8_BadAreaIsSafe ==
    frames > 0 =>
        \A i \in 1..Len(polygon_zones) :
            polygon_zones[i].area <= 0 =>
                /\ zone_densities[polygon_zones[i].id] = <<0, 1>>
                /\ zone_statuses[polygon_zones[i].id] = "SAFE"
                /\ polygon_zones[i].id \notin DOMAIN zone_timers
                /\ polygon_zones[i].id \notin DOMAIN zone_timer_data

\* a zone of area 0 that was given 250 people in the last frame
C8_Witness ==
    \E i \in 1..Len(polygon_zones) :
        /\ polygon_zones[i].area = 0
        /\ frames > 0
        /\ zone_counts[polygon_zones[i].id] = 250
        /\ zone_statuses[polygon_zones[i].id] = "SAFE"

---------------------------------------------------------------------------
(* Properties of the classification (specification SpecDensity) *)

\* C6: every density d >= 0 gets exactly one status, SAFE iff d < 2.0,
\* MODERATE iff 2.0 <= d < 3.5, WARNING iff 3.5 <= d < 5.0, EMERGENCY iff
\* d >= 5.0, so that 2.0, 3.5 and 5.0 themselves belong to the higher tier.
C6_TierBoundaries ==
    LET n == cls_density[1]
        d == cls_density[2]
    IN  /\ d > 0 /\ n >= 0
        /\ cls_status \in {"SAFE", "MODERATE", "WARNING", "EMERGENCY"}
        /\ (cls_status = "SAFE") <=> (n * 10 < d * 20)
        /\ (cls_status = "MODERATE") <=> (n * 10 >= d * 20 /\ n * 10 < d * 35)
        /\ (cls_status = "WARNING") <=> (n * 10 >= d * 35 /\ n * 10 < d * 50)
        /\ (cls_status = "EMERGENCY") <=> (n * 10 >= d * 50)

\* a density of exactly 3.5 classified WARNING
C6_Witness ==
    /\ cls_count > 0
    /\ cls_density = <<cls_count, cls_area>>
    /\ cls_count * 10 = cls_area * 35
    /\ cls_status = "WARNING"

\* C7: for a fixed area, classifying a count that is at least the previous
\* count never gives a less severe status.
C7_Step ==
    (cls_area' = cls_area /\ cls_count <= cls_count') =>
        priority[cls_status] <= priority[cls_status']

C7_MonotoneInCount == [][C7_Step]_vars

\* a positive count classified WARNING, between counts classified MODERATE
\* and EMERGENCY for the same area
C7_Witness ==
    /\ cls_area > 0
    /\ cls_status = "WARNING"
    /\ get_status_by_density(calculate_density(cls_count - 1, cls_area)) = "MODERATE"
    /\ get_status_by_density(calculate_density(cls_count + 1, cls_area)) = "EMERGENCY"

---------------------------------------------------------------------------
(* Properties of the zone assignment (specification SpecGeom) *)

ZoneOfQuadrant(k) == <<"zone_0", "zone_1", "zone_2", "zone_3">>[k + 1]

\* C9: with the default four-rectangle layout every pixel point of every
\* frame size is put in the zone of the quadrant that get_zone returns.
C9_QuadrantAgreement ==
    polygon_zones = DEFAULT_POLYGON_ZONES =>
        \A k \in 1..Len(detections) :
            detections[k].zone_id =
                ZoneOfQuadrant(get_zone(detections[k].center[1],
                                        detections[k].center[2],
                                        frame_w, frame_h))

\* C10: a zone whose polygon has fewer than 3 vertices contains no point,
\* so its count is 0 and no detection carries its id.
C10_DegenerateIsEmpty ==
    \A i \in 1..Len(polygon_zones) :
        Len(polygon_zones[i].polygon) < 3 =>
            /\ \A c \in Pixels :
                  ~ point_in_polygon(c[1], c[2], polygon_zones[i].polygon,
                                     frame_w, frame_h)
            /\ zone_counts[polygon_zones[i].id] = 0
            /\ \A k \in 1..Len(detections) :
                  detections[k].zone_id # polygon_zones[i].id

\* a detection on the vertex shared by the one-vertex and the two-vertex
\* polygon, counted in the zone declared after them
C10_Witness ==
    /\ polygon_zones = DegenerateZones
    /\ Len(detections) = 1
    /\ detections[1].center = <<0, 0>>
    /\ detections[1].zone_id = "zone_3"
    /\ zone_counts["zone_3"] = 1

\* C11: every detection carries the id of the earliest declared zone whose
\* polygon contains its point, or the null id when no zone contains it; a
\* zone's count is the number of detections carrying its id, so a point in
\* several zones is counted once and a point in no zone is counted nowhere.
C11_FirstMatchWins ==
    LET Inside(k, i) ==
            point_in_polygon(detections[k].center[1], detections[k].center[2],
                             polygon_zones[i].polygon, frame_w, frame_h)
    IN  /\ \A k \in 1..Len(detections) :
              IF \A i \in 1..Len(polygon_zones) : ~ Inside(k, i)
              THEN detections[k].zone_id = NoneId
              ELSE \E i \in 1..Len(polygon_zones) :
                      /\ Inside(k, i)
                      /\ \A j \in 1..(i - 1) : ~ Inside(k, j)
                      /\ detections[k].zone_id = polygon_zones[i].id
        /\ \A i \in 1..Len(polygon_zones) :
              zone_counts[polygon_zones[i].id] =
                  Cardinality({k \in 1..Len(detections) :
                                  detections[k].zone_id = polygon_zones[i].id})

\* a detection in the top-left quarter, which both zones contain, counted
\* in the zone declared first only
C11_Witness ==
    /\ polygon_zones = OverlappingZones
    /\ Len(detections) = 1
    /\ point_in_polygon(detections[1].center[1], detections[1].center[2],
                        polygon_zones[2].polygon, frame_w, frame_h)
    /\ detections[1].zone_id = "zone_0"
    /\ zone_counts["zone_0"] = 1
    /\ zone_counts["zone_1"] = 0

---------------------------------------------------------------------------
(* Properties of the global alert level (specification SpecAlert) *)

\* C12: both get_global_alert_level functions return the maximum status of
\* the map under SAFE < MODERATE < WARNING < EMERGENCY, SAFE for no zone.
C12_GlobalAlertIsMax ==
    LET Rank(x) == CASE x = "SAFE" -> 0 [] x = "MODERATE" -> 1
                     [] x = "WARNING" -> 2 [] x = "EMERGENCY" -> 3
        zs == route_zone_statuses
        IsMax(level) ==
            /\ \A z \in DOMAIN zs : Rank(zs[z]) <= Rank(level)
            /\ \/ \E z \in DOMAIN zs : zs[z] = level
               \/ level = "SAFE"
    IN  /\ IsMax(global_alert.zone_logic)
        /\ IsMax(global_alert.evacuation)
        /\ global_alert.zone_logic = global_alert.evacuation

\* zones with statuses SAFE, WARNING, EMERGENCY, MODERATE: EMERGENCY
C12_Witness ==
    /\ route_zone_statuses = (0 :> "SAFE" @@ 1 :> "WARNING" @@
                              2 :> "EMERGENCY" @@ 3 :> "MODERATE")
    /\ global_alert = [zone_logic |-> "EMERGENCY", evacuation |-> "EMERGENCY"]

---------------------------------------------------------------------------
(* Properties of the routing (specification SpecExit) *)

\* generate_instructions has run
Routed == zone_exit_mapping # EmptyDict

StatusOfZone(zone) == DictGet(route_zone_statuses, zone, "SAFE")

\* C13: there is exactly one instruction per zone 0..3, and it is MONITOR
\* for a SAFE zone and CONTROL for a MODERATE zone, whatever the exits, their
\* statuses and the mapping are.
C13_CalmZones ==
    Routed =>
        /\ Len(instructions) = 4
        /\ \A zone \in ZoneIndices :
              /\ instructions[zone + 1].zone = zone
              /\ instructions[zone + 1].status = StatusOfZone(zone)
              /\ StatusOfZone(zone) = "SAFE" =>
                    instructions[zone + 1].action = "MONITOR"
              /\ StatusOfZone(zone) = "MODERATE" =>
                    instructions[zone + 1].action = "CONTROL"

\* a MODERATE zone whose two exits are BLOCKED, beside a SAFE zone with an
\* OPEN exit and a zone with neither a status nor an exit
C13_Witness ==
    /\ Routed
    /\ Len(exit_config) = 3
    /\ route_zone_statuses = (0 :> "SAFE" @@ 2 :> "MODERATE")
    /\ zone_exit_mapping[2] = [primary |-> 0, secondary |-> 1]
    /\ zone_exit_mapping[0] = [primary |-> 2, secondary |-> NoIdx]
    /\ exit_statuses = (0 :> "BLOCKED" @@ 1 :> "BLOCKED" @@ 2 :> "OPEN")
    /\ instructions[3].action = "CONTROL"
    /\ instructions[1].action = "MONITOR"
    /\ instructions[2].action = "MONITOR"
    /\ instructions[2].primary_exit = NoneName

\* the exits of a zone, by the mapping in force
PrimaryOf(zone) == zone_exit_mapping[zone].primary

SecondaryOf(zone) == zone_exit_mapping[zone].secondary

\* exit idx exists, has the status s and a name that is not empty
ExitIs(idx, s) ==
    /\ idx # NoIdx
    /\ exit_statuses[idx] = s
    /\ exit_config[idx + 1].name # ""

Serves(idx, zone) ==
    \E k \in 1..Len(exit_config[idx + 1].zones) : exit_config[idx + 1].zones[k] = zone

Alarmed(zone) == StatusOfZone(zone) \in {"WARNING", "EMERGENCY"}

\* C14 as stated: when some exit serving a WARNING or EMERGENCY zone is
\* OPEN, the action is PREPARE (WARNING) or EVACUATE (EMERGENCY) and the
\* message names an OPEN exit that serves the zone.
C14_OpenExitGivesPrepareOrEvacuate ==
    Routed =>
        \A zone \in ZoneIndices :
            (/\ Alarmed(zone)
             /\ \E idx \in DOMAIN exit_statuses :
                    Serves(idx, zone) /\ exit_statuses[idx] = "OPEN")
            => /\ instructions[zone + 1].action =
                     IF StatusOfZone(zone) = "WARNING" THEN "PREPARE" ELSE "EVACUATE"
               /\ \E idx \in DOMAIN exit_statuses :
                     /\ Serves(idx, zone)
                     /\ exit_statuses[idx] = "OPEN"
                     /\ instructions[zone + 1].message[2] = exit_config[idx + 1].name

\* C14, amended: when the primary exit of a WARNING or EMERGENCY zone is
\* OPEN the action is PREPARE or EVACUATE and the message names the primary
\* exit; when the primary exit is not OPEN and the secondary exit is, the
\* action is REDIRECT or EVACUATE_ALT and the message names the secondary.
C14_PrimaryThenSecondary ==
    Routed =>
        \A zone \in ZoneIndices :
            LET ins == instructions[zone + 1]
                warning == StatusOfZone(zone) = "WARNING"
            IN  Alarmed(zone) =>
                  /\ ExitIs(PrimaryOf(zone), "OPEN") =>
                        /\ ins.action = IF warning THEN "PREPARE" ELSE "EVACUATE"
                        /\ ins.message[2] = exit_config[PrimaryOf(zone) + 1].name
                  /\ (/\ ~ ExitIs(PrimaryOf(zone), "OPEN")
                      /\ ExitIs(SecondaryOf(zone), "OPEN")) =>
                        /\ ins.action = IF warning THEN "REDIRECT" ELSE "EVACUATE_ALT"
                        /\ ins.message[2] = exit_config[SecondaryOf(zone) + 1].name

\* a WARNING zone redirected to its OPEN secondary exit past a CROWDED
\* primary, beside an EMERGENCY zone evacuated by its OPEN primary exit
C14_Witness ==
    /\ Routed
    /\ route_zone_statuses = (0 :> "EMERGENCY" @@ 2 :> "WARNING")
    /\ zone_exit_mapping[2] = [primary |-> 0, secondary |-> 1]
    /\ zone_exit_mapping[0] = [primary |-> 1, secondary |-> NoIdx]
    /\ exit_statuses = (0 :> "CROWDED" @@ 1 :> "OPEN")
    /\ instructions[3].action = "REDIRECT"
    /\ instructions[3].message[2] = "South Exit"
    /\ instructions[1].action = "EVACUATE"
    /\ instructions[1].message[2] = "South Exit"

\* C15 as stated: a WARNING or EMERGENCY zone that no OPEN exit serves gets
\* HOLD (WARNING) or AWAIT_RESCUE (EMERGENCY).
C15_NoOpenExitGivesHoldOrAwait ==
    Routed =>
        \A zone \in ZoneIndices :
            (/\ Alarmed(zone)
             /\ \A idx \in DOMAIN exit_statuses :
                    Serves(idx, zone) => exit_statuses[idx] # "OPEN")
            => instructions[zone + 1].action =
                  IF StatusOfZone(zone) = "WARNING" THEN "HOLD" ELSE "AWAIT_RESCUE"

\* exit idx is None or BLOCKED
AbsentOrBlocked(idx) == idx = NoIdx \/ exit_statuses[idx] = "BLOCKED"

\* C15, amended: a WARNING or EMERGENCY zone whose primary and secondary
\* exits are each absent or BLOCKED gets HOLD (WARNING) or AWAIT_RESCUE
\* (EMERGENCY), and its message names no exit.
C15_BlockedGivesHoldOrAwait ==
    Routed =>
        \A zone \in ZoneIndices :
            (/\ Alarmed(zone)
             /\ AbsentOrBlocked(PrimaryOf(zone))
             /\ AbsentOrBlocked(SecondaryOf(zone)))
            => /\ instructions[zone + 1].action =
                     IF StatusOfZone(zone) = "WARNING" THEN "HOLD" ELSE "AWAIT_RESCUE"
               /\ instructions[zone + 1].message[2] = NoneName

\* get_exit_status blocks both exits of an EMERGENCY zone, which awaits
\* rescue, while a WARNING zone that no exit serves holds
C15_Witness ==
    /\ Routed
    /\ route_zone_statuses = (0 :> "WARNING" @@ 2 :> "EMERGENCY")
    /\ zone_exit_mapping[2] = [primary |-> 0, secondary |-> 1]
    /\ zone_exit_mapping[0] = [primary |-> NoIdx, secondary |-> NoIdx]
    /\ exit_statuses = get_exit_status(exit_config, route_zone_statuses)
    /\ exit_statuses = (0 :> "BLOCKED" @@ 1 :> "BLOCKED")
    /\ instructions[3].action = "AWAIT_RESCUE"
    /\ instructions[1].action = "HOLD"

\* the square of the Euclidean distance, in the pixels of a 4 x 4 frame,
\* from the anchor of a zone (the centroid of its default polygon) to exit idx
Distance2(zone, idx) ==
    LET anchor == get_polygon_centroid(DEFAULT_POLYGON_ZONES[zone + 1].polygon, 4, 4)
        at == ExitPixel(exit_config[idx + 1], 4, 4)
    IN  (anchor[1] - at[1]) * (anchor[1] - at[1])
          + (anchor[2] - at[2]) * (anchor[2] - at[2])

\* C16 as stated: the exit returned for a zone is the OPEN exit nearest to
\* the zone's anchor, the first in input order among the nearest, and null
\* when no exit is OPEN.
C16_NearestOpenExit ==
    Routed =>
        \A zone \in ZoneIndices :
            LET open == {idx \in DOMAIN exit_statuses : exit_statuses[idx] = "OPEN"}
                nearest == {idx \in open :
                               \A other \in open :
                                   Distance2(zone, idx) <= Distance2(zone, other)}
            IN  IF open = {} THEN best_exit[zone] = None
                ELSE best_exit[zone] =
                        exit_config[(CHOOSE idx \in nearest :
                                        \A other \in nearest : idx <= other) + 1]

\* C16, amended: the exit returned for a zone is, among the first two exits
\* in input order that serve the zone, the first one that is OPEN, whatever
\* the distances; when neither is OPEN, the first one that is CROWDED; and
\* null when neither is OPEN or CROWDED.  A BLOCKED exit is never returned.
C16_FirstOpenOfFirstTwo ==
    Routed =>
        \A zone \in ZoneIndices :
            LET serving == {idx \in DOMAIN exit_statuses : Serves(idx, zone)}
                firstTwo == {idx \in serving :
                                Cardinality({j \in serving : j < idx}) < 2}
                open == {idx \in firstTwo : exit_statuses[idx] = "OPEN"}
                crowded == {idx \in firstTwo : exit_statuses[idx] = "CROWDED"}
                First(S) == CHOOSE idx \in S : \A other \in S : idx <= other
            IN  /\ best_exit[zone] =
                      IF open # {} THEN exit_config[First(open) + 1]
                      ELSE IF crowded # {} THEN exit_config[First(crowded) + 1]
                      ELSE None
                /\ \A idx \in DOMAIN exit_statuses :
                      best_exit[zone] = exit_config[idx + 1] =>
                          exit_statuses[idx] # "BLOCKED"

\* the zone's second exit is strictly nearer than its first, and BLOCKED:
\* the OPEN first exit is returned
C16_Witness ==
    /\ Routed
    /\ zone_exit_mapping[2] = [primary |-> 0, secondary |-> 1]
    /\ exit_statuses = (0 :> "OPEN" @@ 1 :> "BLOCKED")
    /\ Distance2(2, 1) < Distance2(2, 0)
    /\ best_exit[2] = exit_config[1]

---------------------------------------------------------------------------
(* Elapsed time of the timers (specification Spec) *)

\* C17: a timer that survives a frame keeps its start time t0, and after
\* every frame the elapsed time stored and reported for a zone is the clock
\* reading of that frame minus t0, and the severity reported is the tier of
\* that difference: neither depends on how many frames were processed since
\* t0 nor on their spacing.
C17_Step ==
    \A z \in Zones :
        /\ (z \in DOMAIN zone_timers /\ z \in DOMAIN zone_timers') =>
              zone_timers'[z].start_time = zone_timers[z].start_time
        /\ z \in DOMAIN zone_timers' =>
              LET t0 == zone_timers'[z].start_time
                  at == TimerManager(z :> [start_time |-> t0, elapsed |-> now' - t0],
                                     EmptyDict, EmptyDict)
              IN  /\ zone_timers'[z].elapsed = now' - t0
                  /\ zone_timer_data'[z].elapsed = now' - t0
                  /\ zone_timer_data'[z].severity = get_severity_level(at, z)
                  /\ zone_timer_data'[z].formatted_time = get_formatted_time(at, z)

C17_ElapsedIsWallClock == [][C17_Step]_vars

\* the second frame comes 60 s after the frame that created the timer, all
\* frames between them skipped: elapsed is 60 s and the severity SEVERE
C17_Witness ==
    /\ frames = 2
    /\ \E z \in DOMAIN zone_timers :
          /\ zone_timers[z].start_time = now - 60 * 4
          /\ zone_timers[z].elapsed = 60 * 4
          /\ zone_timer_data[z].severity = "SEVERE"

---------------------------------------------------------------------------
(* Properties of the audio alerts (specification SpecAudio) *)

\* an update_alert call made on an enabled system has returned
AfterUpdate == main_pc = "idle" /\ call.op = "update_alert" /\ call.enabled

\* the level the statuses given to the last update_alert call for
LevelCalledFor ==
    LET zs == call.zone_statuses
        Zones_(x) == {z \in DOMAIN zs : zs[z] = x}
    IN  IF Cardinality(Zones_("EMERGENCY")) >= 2 THEN "CRITICAL"
        ELSE IF Cardinality(Zones_("EMERGENCY")) = 1 THEN "EMERGENCY"
        ELSE IF Zones_("WARNING") # {} THEN "WARNING"
        ELSE IF Zones_("MODERATE") # {} THEN "MODERATE"
        ELSE "SAFE"

SomeThreadAlive == \E t \in 1..Len(threads) : IsAlive(t)

\* C18 as stated: after update_alert on an enabled system current_alert is
\* the level the statuses call for, and an alert thread is alive only if
\* that level is not SAFE.
C18_LevelAndThread ==
    AfterUpdate =>
        /\ current_alert = LevelCalledFor
        /\ SomeThreadAlive => LevelCalledFor # "SAFE"

\* C18, amended: after update_alert on an enabled system current_alert is
\* the level the statuses call for, and when that level is SAFE every alert
\* thread still alive has been told to stop (stop_flag is set).
C18_LevelAndStoppedThread ==
    AfterUpdate =>
        /\ current_alert = LevelCalledFor
        /\ (LevelCalledFor = "SAFE" /\ SomeThreadAlive) => stop_flag

\* update_alert has taken the level down to SAFE while the alert thread
\* slept through join's timeout: the thread is alive, and told to stop
C18_Witness ==
    /\ AfterUpdate
    /\ call.zone_statuses = (0 :> "SAFE" @@ 1 :> "SAFE")
    /\ current_alert = "SAFE"
    /\ IsAlive(alert_thread)
    /\ threads[alert_thread].pc = "sleep"
    /\ stop_flag

---------------------------------------------------------------------------
(* Exit statuses and the best exit (specification SpecExit) *)

\* generate_evacuation_instructions ran: exit_statuses is get_exit_status's
Derived == route_call = "generate_evacuation_instructions"

\* the zones exit idx serves
ServedZones(idx) ==
    {exit_config[idx + 1].zones[k] : k \in 1..Len(exit_config[idx + 1].zones)}

\* C19: get_exit_status gives every exit exactly one status: BLOCKED iff a
\* zone it serves is EMERGENCY, CROWDED iff none is EMERGENCY and one is
\* WARNING, OPEN otherwise; an unrecorded zone counts as SAFE and an exit
\* serving no zone is OPEN.
C19_ExitStatusFromServedZones ==
    Derived =>
        /\ DOMAIN exit_statuses = 0..(Len(exit_config) - 1)
        /\ \A idx \in DOMAIN exit_statuses :
             LET HasZone(s) == \E z \in ServedZones(idx) : StatusOfZone(z) = s
             IN  /\ exit_statuses[idx] \in {"BLOCKED", "CROWDED", "OPEN"}
                 /\ exit_statuses[idx] = "BLOCKED" <=> HasZone("EMERGENCY")
                 /\ exit_statuses[idx] = "CROWDED" <=>
                        (~HasZone("EMERGENCY") /\ HasZone("WARNING"))
                 /\ ServedZones(idx) = {} => exit_statuses[idx] = "OPEN"

\* three exits, one blocked by the emergency in zone 0, one crowded by the
\* warning in zone 2, one that serves no zone and is open
C19_Witness ==
    /\ Derived
    /\ route_zone_statuses = (0 :> "EMERGENCY" @@ 2 :> "WARNING")
    /\ Len(exit_config) = 3
    /\ \E i, j, k \in DOMAIN exit_statuses :
         /\ exit_statuses[i] = "BLOCKED" /\ 0 \in ServedZones(i)
         /\ exit_statuses[j] = "CROWDED" /\ ServedZones(j) = {2}
         /\ exit_statuses[k] = "OPEN" /\ ServedZones(k) = {}

\* the status of a zone's primary or secondary exit, None when it has none
StatusOfExit(idx) == IF idx = NoIdx THEN NoneName ELSE exit_statuses[idx]

\* get_best_exit_for_zone returned exit idx for the zone
Returned(zone, idx) == idx # NoIdx /\ best_exit[zone] = exit_config[idx + 1]

\* C20: get_best_exit_for_zone returns the primary exit if OPEN, else the
\* secondary if OPEN, else the primary if CROWDED, else the secondary if
\* CROWDED, else None; the exit returned is never BLOCKED, and is CROWDED
\* only when neither the primary nor the secondary exit is OPEN.
C20_BestExitPriority ==
    Routed =>
        \A zone \in ZoneIndices :
            LET p == PrimaryOf(zone)
                s == SecondaryOf(zone)
                NoneOpen == StatusOfExit(p) # "OPEN" /\ StatusOfExit(s) # "OPEN"
            IN  /\ StatusOfExit(p) = "OPEN" => Returned(zone, p)
                /\ (StatusOfExit(p) # "OPEN" /\ StatusOfExit(s) = "OPEN")
                      => Returned(zone, s)
                /\ (NoneOpen /\ StatusOfExit(p) = "CROWDED") => Returned(zone, p)
                /\ (NoneOpen /\ StatusOfExit(p) # "CROWDED"
                             /\ StatusOfExit(s) = "CROWDED") => Returned(zone, s)
                /\ (\A idx \in {p, s} :
                        StatusOfExit(idx) \notin {"OPEN", "CROWDED"})
                      => best_exit[zone] = None
                /\ \A idx \in DOMAIN exit_statuses :
                      best_exit[zone] = exit_config[idx + 1] =>
                          /\ idx \in {p, s}
                          /\ exit_statuses[idx] # "BLOCKED"
                          /\ exit_statuses[idx] = "CROWDED" => NoneOpen

\* zone 2's primary exit is CROWDED and its secondary OPEN: the secondary is
\* returned; zone 0 has a BLOCKED primary and no secondary: None
C20_Witness ==
    /\ Routed
    /\ zone_exit_mapping[2] = [primary |-> 0, secondary |-> 1]
    /\ zone_exit_mapping[0] = [primary |-> 2, secondary |-> NoIdx]
    /\ exit_statuses = (0 :> "CROWDED" @@ 1 :> "OPEN" @@ 2 :> "BLOCKED")
    /\ Returned(2, 1)
    /\ best_exit[0] = None

\* a step that is a new call of update_alert
UpdateCalled == main_pc = "idle" /\ call' # call /\ call'.op = "update_alert"

\* C21: an update_alert call made while the system is disabled, or whose
\* computed level equals current_alert, leaves current_alert, stop_flag, the
\* alert thread and every thread as they were.
C21_Step ==
    (UpdateCalled /\ (~audio_enabled \/ LevelCalledFor' = current_alert))
        => UNCHANGED <<current_alert, stop_flag, alert_thread, threads,
                       audio_enabled, main_pc>>

C21_NoRestartWhenUnchanged == [][C21_Step]_vars

\* update_alert was called with two EMERGENCY zones on a disabled system
\* whose last alert thread is still asleep: nothing was restarted
C21_Witness ==
    /\ main_pc = "idle"
    /\ call.op = "update_alert"
    /\ ~call.enabled
    /\ LevelCalledFor = "CRITICAL"
    /\ current_alert = "SAFE"
    /\ stop_flag
    /\ IsAlive(alert_thread)
    /\ threads[alert_thread].pc = "sleep"

\* the threads inside the beep pattern of _alert_loop
Beeping == {t \in 1..Len(threads) : threads[t].pc = "beep"}

\* C22: at most one alert-loop thread plays beeps, and it is the current
\* alert thread: a thread that start_alert has replaced never passes the
\* test of stop_flag again.
C22_OneThreadLoops ==
    /\ Cardinality(Beeping) <= 1
    /\ \A t \in Beeping : t = alert_thread

\* C23: with the exit statuses get_exit_status derives and the mapping of
\* get_zone_exit_mapping, every exit serving an EMERGENCY zone is BLOCKED,
\* every EMERGENCY zone is told AWAIT_RESCUE, no instruction is EVACUATE,
\* EVACUATE_ALT or EVACUATE_CROWDED, and a WARNING zone with a mapped exit
\* is never told PREPARE or REDIRECT.
C23_DerivedStatusesNeverEvacuate ==
    Derived =>
        /\ \A idx \in DOMAIN exit_statuses :
             (\E zone \in ServedZones(idx) : StatusOfZone(zone) = "EMERGENCY")
                 => exit_statuses[idx] = "BLOCKED"
        /\ \A i \in 1..Len(instructions) :
             LET ins == instructions[i]
             IN  /\ ins.status = "EMERGENCY" => ins.action = "AWAIT_RESCUE"
                 /\ ins.action \notin {"EVACUATE", "EVACUATE_ALT", "EVACUATE_CROWDED"}
                 /\ (ins.status = "WARNING" /\ PrimaryOf(ins.zone) # NoIdx)
                       => ins.action \notin {"PREPARE", "REDIRECT"}

\* zone 0 is in EMERGENCY and zone 2 in WARNING, each has a named exit of
\* its own besides the one they share: zone 0 awaits rescue, zone 2 is sent
\* with caution to its crowded exit
C23_Witness ==
    /\ Derived
    /\ route_zone_statuses = (0 :> "EMERGENCY" @@ 2 :> "WARNING")
    /\ zone_exit_mapping[2] = [primary |-> 0, secondary |-> 1]
    /\ zone_exit_mapping[0] = [primary |-> 1, secondary |-> NoIdx]
    /\ exit_config[1].name # "" /\ exit_config[2].name # ""
    /\ exit_statuses[0] = "CROWDED" /\ exit_statuses[1] = "BLOCKED"
    /\ instructions[1].action = "AWAIT_RESCUE"
    /\ instructions[3].action = "CAUTION"

---------------------------------------------------------------------------
(* Timers across analysis runs (specification SpecRuns) *)

\* C24: when a run starts the timer manager holds no timer, and a zone that
\* is in EMERGENCY on the first frame of a run is reported with elapsed 0
\* and severity WARNING.
C24_NewRunStartsFresh ==
    /\ frame_count = 0 => zone_timers = EmptyDict
    /\ frame_count = 1 =>
          \A zid \in DOMAIN zone_statuses :
              zone_statuses[zid] = "EMERGENCY" =>
                  /\ zone_timer_data[zid].elapsed = 0
                  /\ zone_timer_data[zid].severity = "WARNING"

---------------------------------------------------------------------------
(* The configuration page (specification SpecConfig) *)

\* C25: a Start Analysis that navigates to the analysis page does so with a
\* video loaded and with at least one detection zone configured.
C25_Step ==
    (current_page = "config" /\ current_page' = "analysis")
        => (video_file' # NoneName /\ polygon_zones' # << >>)

C25_StartNeedsVideoAndZone == [][C25_Step]_vars

---------------------------------------------------------------------------
(* generate_instructions against get_best_exit_for_zone (specification SpecExit) *)

\* every exit has a name
AllNamed == \A k \in 1..Len(exit_config) : exit_config[k].name # ""

\* C26: for every WARNING or EMERGENCY zone the instruction is the no-route
\* one (HOLD, AWAIT_RESCUE) exactly when get_best_exit_for_zone returns None
\* for the zone, and when it returns an exit the instruction names an exit
\* (stated for exit lists in which every exit has a name).
C26_NoRouteIffNoBestExit ==
    (Routed /\ AllNamed) =>
        \A i \in 1..Len(instructions) :
            LET ins == instructions[i]
            IN  ins.status \in {"WARNING", "EMERGENCY"} =>
                    /\ ins.action \in {"HOLD", "AWAIT_RESCUE"}
                          <=> best_exit[ins.zone] = None
                    /\ best_exit[ins.zone] # None => ins.message[2] # NoneName

=============================================================================
